---------------------------- MODULE Spec2Model ----------------------------
(***************************************************************************)
(* PokeTrade Flask application (src/poketrade_flask_app.py).               *)
(*                                                                         *)
(* The model covers the data access helpers, the authentication routes     *)
(* (login, register, logout) and the read-only page handlers.  Storage is  *)
(* the SQLite database the handlers query; each browser session is a       *)
(* Flask session dictionary.  A request is handled by one action (the      *)
(* whole handler); register is split at its two storage statements, the    *)
(* existence check and the insert, because requests of different sessions  *)
(* may interleave there.  After the handler returned, close_connection     *)
(* ends the request.  Each request keeps the statements it executed (text  *)
(* and bound parameters) and the connections it opened; a connection holds *)
(* the rows it wrote until they are committed.                             *)
(*                                                                         *)
(* Text is a sequence of one-character strings where its characters        *)
(* matter (card names, search terms), and an atom otherwise.               *)
(***************************************************************************)
EXTENDS Integers, Sequences, FiniteSets, TLC

VARIABLES
    users,        \* table users: sequence of rows in rowid order
    listings,     \* table listings: set of rows
    user_cards,   \* table user_cards: set of rows
    session,      \* session[s]: the Flask session dictionary of browser s
    g,            \* g[s]: the _database attribute of the request context of s
    pc,           \* pc[s]: position of the request of s that is in progress
    req,          \* req[s]: the request of s in progress (route, method, inputs read)
    resp,         \* resp[s]: what the handler of s returned (until the request ends)
    registered,   \* history: the (id, username, password) of every successful registration
    sql,          \* sql[s]: the statements the request of s executed, in order
    opened,       \* opened[s]: sqlite3.connect calls made by the request of s
    nopen,        \* connections to the database that are open
    pending       \* pending[s]: rows the connection of s wrote and has not committed

vars == <<users, listings, user_cards, session, g, pc, req, resp, registered,
          sql, opened, nopen, pending>>

-----------------------------------------------------------------------------
(* Bounds and input domains *)

MaxUsers == 2

Sessions == {1, 2}

Usernames == {"ash", "misty"}

Emails == {"ash@example.com", "misty@example.com"}

Passwords == {"pikachu123", "wrong"}

Salts == {"s1"}

-----------------------------------------------------------------------------
(* Generic helpers *)

\* SQL NULL / Python None as the empty sequence, a value v as <<v>>.
Null == <<>>

Some(v) == <<v>>

\* The Flask session dictionary after session.clear().
EmptySession == [k \in {} |-> Null]

NoReq == [route |-> "none"]

NoResp == [kind |-> "none"]

\* flash(message, category) followed by render_template_string(<page>).
Render(page, flashed) == [kind |-> "render", page |-> page, flash |-> flashed]

\* flash(message, category) followed by redirect(url_for(<to>)).
Redirect(to, flashed) == [kind |-> "redirect", to |-> to, flash |-> flashed]

Flash(message, category) == <<message, category>>

NoFlash == <<>>

-----------------------------------------------------------------------------
(* werkzeug.security *)

\* The digest of a salted password: injective in (salt, password).
Digest(salt, password) == <<salt, password>>

\* generate_password_hash(password) with the salt it drew.
generate_password_hash(password, salt) ==
    [salt |-> salt, digest |-> Digest(salt, password)]

check_password_hash(pwhash, password) ==
    pwhash.digest = Digest(pwhash.salt, password)

-----------------------------------------------------------------------------
(* Data access helpers *)

\* get_db(): the connection of the request context, opened on first use.
get_db(s) == [g EXCEPT ![s] = "open"]

\* The sqlite3.connect calls of n successive get_db() calls, the first in a
\* request context whose _database attribute is db.
RECURSIVE ConnectCalls(_, _)
ConnectCalls(db, n) ==
    IF n = 0 THEN 0
    ELSE (IF db = "none" THEN 1 ELSE 0) + ConnectCalls("open", n - 1)

\* One executed statement: its text, as the sequence of the string literals
\* it was put together from, and the parameters bound to its placeholders.
Query(text, params) == [text |-> text, params |-> params]

\* The request of s executes the statements q, each through get_db().
Queries(s, q) ==
    /\ sql' = [sql EXCEPT ![s] = sql[s] \o q]
    /\ g' = IF q = << >> THEN g ELSE get_db(s)
    /\ opened' = [opened EXCEPT ![s] = opened[s] + ConnectCalls(g[s], Len(q))]
    /\ nopen' = nopen + ConnectCalls(g[s], Len(q))

CloseCount_OnlyOnSuccess(db, exception) ==
    IF db # "none" /\ ~exception THEN 1 ELSE 0

\* The connections close_connection(exception) closes.
CloseCount(db, exception) == IF db # "none" THEN 1 ELSE 0

execute_db_NoCommit(written) ==
    [committed   |-> SubSeq(written, 1, Len(written) - 1),
     uncommitted |-> << written[Len(written)] >>,
     lastrowid   |-> written[Len(written)].id]

\* execute_db on the table as the connection sees it after db.execute(INSERT):
\* db.commit() makes the row part of the table every connection reads, and
\* cur.lastrowid is returned.
execute_db(written) ==
    [committed   |-> written,
     uncommitted |-> << >>,
     lastrowid   |-> written[Len(written)].id]

\* query_db(query, args, one=True) on a sequence of matching rows:
\* rv[0] if rv else None.
QueryOne(rows) == IF Len(rows) > 0 THEN Some(rows[1]) ELSE Null

\* SelectSeq keeps the table's rowid order.
UsersByUsername(username) ==
    SelectSeq(users, LAMBDA r : r.username = username)

UsersByUsernameOrEmail_UsernameOnly(username, email) ==
    SelectSeq(users, LAMBDA r : r.username = username)

\* SELECT id FROM users WHERE username = ? OR email = ?
UsersByUsernameOrEmail(username, email) ==
    SelectSeq(users, LAMBDA r : r.username = username \/ r.email = email)

InsertUser_IfAbsent(username, email, pwhash) ==
    IF \E i \in 1..Len(users) : users[i].username = username
    THEN users
    ELSE Append(users, [id |-> Len(users) + 1, username |-> username,
                        email |-> email, password_hash |-> pwhash])

\* INSERT INTO users (...) VALUES (...): the table with the new row, whose
\* id is the next rowid.
InsertUser(username, email, pwhash) ==
    Append(users, [id |-> Len(users) + 1, username |-> username,
                   email |-> email, password_hash |-> pwhash])

-----------------------------------------------------------------------------
(* Fixed content of the database the application connects to *)

SeedUsers == << >>

\* An unhandled exception: Flask answers 500.
ServerError == [kind |-> "error", status |-> 500]

-----------------------------------------------------------------------------
(* login *)

LoginQueries(username) ==
    << Query(<<"SELECT * FROM users WHERE username = ?">>, <<username>>) >>

LoginGet(s) ==
    /\ pc[s] = "idle"
    /\ pc' = [pc EXCEPT ![s] = "done"]
    /\ req' = [req EXCEPT ![s] = [route |-> "login", method |-> "GET"]]
    /\ resp' = [resp EXCEPT ![s] = Render("login", NoFlash)]
    /\ Queries(s, << >>)
    /\ UNCHANGED <<users, listings, user_cards, session, registered, pending>>

LoginOutcome_Enumerating(user, password) ==
    IF user = Null
    THEN [ok |-> FALSE, resp |-> Render("login", Flash("User not found", "error"))]
    ELSE IF check_password_hash(user[1].password_hash, password)
         THEN [ok |-> TRUE,
               resp |-> Redirect("index", Flash("Login successful!", "success"))]
         ELSE [ok |-> FALSE,
               resp |-> Render("login", Flash("Invalid username or password", "error"))]

\* if user and check_password_hash(...): ... else: flash(...)
LoginOutcome(user, password) ==
    IF user # Null /\ check_password_hash(user[1].password_hash, password)
    THEN [ok |-> TRUE,
          resp |-> Redirect("index", Flash("Login successful!", "success"))]
    ELSE [ok |-> FALSE,
          resp |-> Render("login", Flash("Invalid username or password", "error"))]

LoginPost_Rehashing(s, username, password) ==
    /\ pc[s] = "idle"
    /\ LET user == QueryOne(UsersByUsername(username))
           out  == LoginOutcome(user, password)
       IN  /\ session' = IF out.ok
                         THEN [session EXCEPT ![s] =
                                 [user_id |-> user[1].id,
                                  username |-> user[1].username]]
                         ELSE session
           /\ users' = IF out.ok
                       THEN [users EXCEPT ![user[1].id].password_hash =
                               generate_password_hash(password, "s2")]
                       ELSE users
           /\ resp' = [resp EXCEPT ![s] = out.resp]
    /\ req' = [req EXCEPT ![s] = [route |-> "login", method |-> "POST",
                                  username |-> username, password |-> password]]
    /\ Queries(s, LoginQueries(username))
    /\ pc' = [pc EXCEPT ![s] = "done"]
    /\ UNCHANGED <<listings, user_cards, registered, pending>>

LoginPost_UserIdOnly(s, username, password) ==
    /\ pc[s] = "idle"
    /\ LET user == QueryOne(UsersByUsername(username))
           out  == LoginOutcome(user, password)
       IN  /\ session' = IF out.ok
                         THEN [session EXCEPT ![s] = [user_id |-> user[1].id]]
                         ELSE session
           /\ resp' = [resp EXCEPT ![s] = out.resp]
    /\ req' = [req EXCEPT ![s] = [route |-> "login", method |-> "POST",
                                  username |-> username, password |-> password]]
    /\ Queries(s, LoginQueries(username))
    /\ pc' = [pc EXCEPT ![s] = "done"]
    /\ UNCHANGED <<users, listings, user_cards, registered, pending>>

LoginPost(s, username, password) ==
    /\ pc[s] = "idle"
    /\ LET user == QueryOne(UsersByUsername(username))
           out  == LoginOutcome(user, password)
       IN  /\ session' = IF out.ok
                         THEN [session EXCEPT ![s] =
                                 [user_id |-> user[1].id,
                                  username |-> user[1].username]]
                         ELSE session
           /\ resp' = [resp EXCEPT ![s] = out.resp]
    /\ req' = [req EXCEPT ![s] = [route |-> "login", method |-> "POST",
                                  username |-> username, password |-> password]]
    /\ Queries(s, LoginQueries(username))
    /\ pc' = [pc EXCEPT ![s] = "done"]
    /\ UNCHANGED <<users, listings, user_cards, registered, pending>>

-----------------------------------------------------------------------------
(* register *)

RegisterGet(s) ==
    /\ pc[s] = "idle"
    /\ pc' = [pc EXCEPT ![s] = "done"]
    /\ req' = [req EXCEPT ![s] = [route |-> "register", method |-> "GET"]]
    /\ resp' = [resp EXCEPT ![s] = Render("register", NoFlash)]
    /\ Queries(s, << >>)
    /\ UNCHANGED <<users, listings, user_cards, session, registered, pending>>

\* Rows the requests that already passed the check are going to insert.
PendingInserts == Cardinality({t \in Sessions : pc[t] = "reg_insert"})

\* The POST up to and including `if existing:`; the else branch continues
\* in RegisterInsert.
RegisterCheckQueries(username, email) ==
    << Query(<<"SELECT id FROM users WHERE username = ? OR email = ?">>,
             <<username, email>>) >>

RegisterInsertQueries(username, email, pwhash) ==
    << Query(<<"INSERT INTO users (username, email, password_hash, ...) VALUES (?, ?, ?, ...)">>,
             <<username, email, pwhash>>) >>

RegisterCheck(s, username, email, password) ==
    /\ pc[s] = "idle"
    /\ \/ UsersByUsernameOrEmail(username, email) # << >>
       \/ Len(users) + PendingInserts < MaxUsers    \* room for the row
    /\ Queries(s, RegisterCheckQueries(username, email))
    /\ req' = [req EXCEPT ![s] = [route |-> "register", method |-> "POST",
                                  username |-> username, email |-> email,
                                  password |-> password]]
    /\ LET existing == QueryOne(UsersByUsernameOrEmail(username, email))
       IN  IF existing # Null
           THEN /\ resp' = [resp EXCEPT ![s] =
                       Render("register",
                              Flash("Username or email already exists", "error"))]
                /\ pc' = [pc EXCEPT ![s] = "done"]
           ELSE /\ pc' = [pc EXCEPT ![s] = "reg_insert"]
                /\ resp' = resp
    /\ UNCHANGED <<users, listings, user_cards, session, registered, pending>>

RegisterInsert_LoggingIn(s, salt) ==
    /\ pc[s] = "reg_insert"
    /\ LET pwhash == generate_password_hash(req[s].password, salt)
           ran == execute_db(InsertUser(req[s].username, req[s].email, pwhash))
       IN  /\ users' = ran.committed
           /\ pending' = [pending EXCEPT ![s] = pending[s] \o ran.uncommitted]
           /\ registered' = registered \cup
                  {[id |-> ran.lastrowid, username |-> req[s].username,
                    password |-> req[s].password]}
           /\ session' = [session EXCEPT ![s] =
                  [user_id |-> ran.lastrowid, username |-> req[s].username]]
           /\ Queries(s, RegisterInsertQueries(req[s].username, req[s].email, pwhash))
    /\ resp' = [resp EXCEPT ![s] =
           Redirect("login", Flash("Registration successful! Please login.", "success"))]
    /\ pc' = [pc EXCEPT ![s] = "done"]
    /\ UNCHANGED <<listings, user_cards, req>>

\* The else branch: execute_db(INSERT ...), flash, redirect to login.
RegisterInsert(s, salt) ==
    /\ pc[s] = "reg_insert"
    /\ LET pwhash == generate_password_hash(req[s].password, salt)
           ran == execute_db(InsertUser(req[s].username, req[s].email, pwhash))
       IN  /\ users' = ran.committed
           /\ pending' = [pending EXCEPT ![s] = pending[s] \o ran.uncommitted]
           /\ registered' = registered \cup
                  {[id |-> ran.lastrowid, username |-> req[s].username,
                    password |-> req[s].password]}
           /\ Queries(s, RegisterInsertQueries(req[s].username, req[s].email, pwhash))
    /\ resp' = [resp EXCEPT ![s] =
           Redirect("login", Flash("Registration successful! Please login.", "success"))]
    /\ pc' = [pc EXCEPT ![s] = "done"]
    /\ UNCHANGED <<listings, user_cards, session, req>>

-----------------------------------------------------------------------------
(* logout *)

Logout_EverySession(s) ==
    /\ pc[s] = "idle"
    /\ session' = [t \in Sessions |-> EmptySession]
    /\ resp' = [resp EXCEPT ![s] =
           Redirect("index", Flash("Logged out successfully", "success"))]
    /\ req' = [req EXCEPT ![s] = [route |-> "logout", method |-> "GET"]]
    /\ pc' = [pc EXCEPT ![s] = "done"]
    /\ Queries(s, << >>)
    /\ UNCHANGED <<users, listings, user_cards, registered, pending>>

Logout_PopUserIdOnly(s) ==
    /\ pc[s] = "idle"
    /\ session' = [session EXCEPT ![s] =
           [k \in DOMAIN session[s] \ {"user_id"} |-> session[s][k]]]
    /\ resp' = [resp EXCEPT ![s] =
           Redirect("index", Flash("Logged out successfully", "success"))]
    /\ req' = [req EXCEPT ![s] = [route |-> "logout", method |-> "GET"]]
    /\ pc' = [pc EXCEPT ![s] = "done"]
    /\ Queries(s, << >>)
    /\ UNCHANGED <<users, listings, user_cards, registered, pending>>

Logout(s) ==
    /\ pc[s] = "idle"
    /\ session' = [session EXCEPT ![s] = EmptySession]
    /\ resp' = [resp EXCEPT ![s] =
           Redirect("index", Flash("Logged out successfully", "success"))]
    /\ req' = [req EXCEPT ![s] = [route |-> "logout", method |-> "GET"]]
    /\ pc' = [pc EXCEPT ![s] = "done"]
    /\ Queries(s, << >>)
    /\ UNCHANGED <<users, listings, user_cards, registered, pending>>

-----------------------------------------------------------------------------
(* teardown *)

\* close_connection: closes the connection if one was opened, which drops
\* what it had not committed; the request context, with the response already
\* handed to the client, is gone.
close_connection(s) ==
    /\ pc[s] = "done"
    /\ nopen' = nopen - CloseCount(g[s], resp[s].kind = "error")
    /\ g' = [g EXCEPT ![s] = "none"]
    /\ pending' = [pending EXCEPT ![s] = << >>]
    /\ pc' = [pc EXCEPT ![s] = "idle"]
    /\ req' = [req EXCEPT ![s] = NoReq]
    /\ resp' = [resp EXCEPT ![s] = NoResp]
    /\ sql' = [sql EXCEPT ![s] = << >>]
    /\ opened' = [opened EXCEPT ![s] = 0]
    /\ UNCHANGED <<users, listings, user_cards, session, registered>>

-----------------------------------------------------------------------------
(* a statement that fails *)

\* sqlite3 refuses the first statement of a handler (database locked, disk
\* error): get_db() has opened the connection, the exception leaves
\* query_db and the handler, and Flask answers 500.
QueryFails(s) ==
    /\ pc[s] = "idle"
    /\ req' = [req EXCEPT ![s] = [route |-> "index", method |-> "GET"]]
    /\ resp' = [resp EXCEPT ![s] = ServerError]
    /\ g' = get_db(s)
    /\ opened' = [opened EXCEPT ![s] = opened[s] + ConnectCalls(g[s], 1)]
    /\ nopen' = nopen + ConnectCalls(g[s], 1)
    /\ pc' = [pc EXCEPT ![s] = "done"]
    /\ UNCHANGED <<users, listings, user_cards, session, registered, sql, pending>>

-----------------------------------------------------------------------------
(* The authentication specification *)

Init ==
    /\ users = SeedUsers
    /\ listings = {}
    /\ user_cards = {}
    /\ session = [s \in Sessions |-> EmptySession]
    /\ g = [s \in Sessions |-> "none"]
    /\ pc = [s \in Sessions |-> "idle"]
    /\ req = [s \in Sessions |-> NoReq]
    /\ resp = [s \in Sessions |-> NoResp]
    /\ registered = {}
    /\ sql = [s \in Sessions |-> << >>]
    /\ opened = [s \in Sessions |-> 0]
    /\ nopen = 0
    /\ pending = [s \in Sessions |-> << >>]

Next ==
    \/ \E s \in Sessions : LoginGet(s)
    \/ \E s \in Sessions, u \in Usernames, p \in Passwords : LoginPost(s, u, p)
    \/ \E s \in Sessions : RegisterGet(s)
    \/ \E s \in Sessions, u \in Usernames, e \in Emails, p \in Passwords :
           RegisterCheck(s, u, e, p)
    \/ \E s \in Sessions, salt \in Salts : RegisterInsert(s, salt)
    \/ \E s \in Sessions : Logout(s)
    \/ \E s \in Sessions : QueryFails(s)
    \/ \E s \in Sessions : close_connection(s)

Spec == Init /\ [][Next]_vars

-----------------------------------------------------------------------------
(* Reference data and the rows the page handlers read *)

MaxSearchLen == 2

\* Table sets.
SetsTable == { [id |-> 1, name |-> "Base", series |-> "Original"],
               [id |-> 2, name |-> "Jungle", series |-> "Original"] }

\* Table cards; every set_id references a row of sets.
CardsTable == { [id |-> 1, set_id |-> 1, name |-> <<"A", "b">>],
                [id |-> 2, set_id |-> 1, name |-> <<"b", "a">>],
                [id |-> 3, set_id |-> 2, name |-> <<"B", "_", "a">>] }

\* The users rows of a database that already has two accounts.
ViewUsers ==
    << [id |-> 1, username |-> "ash", email |-> "ash@example.com",
        password_hash |-> generate_password_hash("pikachu123", "s1")],
       [id |-> 2, username |-> "misty", email |-> "misty@example.com",
        password_hash |-> generate_password_hash("pikachu123", "s1")] >>

\* Rows the listings table may hold (prices in cents).
ListingPool ==
    { [id |-> 1, card_id |-> 1, user_id |-> 1, price |-> 1250,
       status |-> "active", created_at |-> 1],
      [id |-> 2, card_id |-> 1, user_id |-> 2, price |-> 999,
       status |-> "active", created_at |-> 2],
      [id |-> 3, card_id |-> 1, user_id |-> 1, price |-> 2000,
       status |-> "active", created_at |-> 3],
      [id |-> 4, card_id |-> 1, user_id |-> 2, price |-> 500,
       status |-> "sold", created_at |-> 4] }

\* Rows the user_cards table may hold.
UserCardPool ==
    { [id |-> 1, user_id |-> 1, card_id |-> 1, list_type |-> "have", is_public |-> 1],
      [id |-> 2, user_id |-> 1, card_id |-> 1, list_type |-> "want", is_public |-> 0],
      [id |-> 3, user_id |-> 2, card_id |-> 1, list_type |-> "have", is_public |-> 0] }

\* Characters of the search box.
SearchChars == {"a", "_", "%"}

RECURSIVE SeqsUpTo(_, _)
SeqsUpTo(S, n) ==
    IF n = 0 THEN { << >> }
    ELSE LET shorter == SeqsUpTo(S, n - 1)
         IN  shorter \cup { Append(q, c) : q \in shorter, c \in S }

\* request.args.get('search', ''): '' when absent.
SearchTerms == SeqsUpTo(SearchChars, MaxSearchLen)

\* request.args.get('set', ''): '' when absent; the text of the query string.
SetFilters == {"", "1", "2", "x"}

-----------------------------------------------------------------------------
(* SQLite semantics the queries rely on *)

\* LIKE folds the case of ASCII letters.
Fold(c) == CASE c = "A" -> "a" [] c = "B" -> "b" [] OTHER -> c

\* str LIKE pat (no ESCAPE clause): '%' matches any run of characters, '_'
\* any one character, any other character itself up to case.
RECURSIVE LikeMatch(_, _)
LikeMatch(pat, str) ==
    IF pat = << >> THEN str = << >>
    ELSE IF Head(pat) = "%"
         THEN \/ LikeMatch(Tail(pat), str)
              \/ str # << >> /\ LikeMatch(pat, Tail(str))
         ELSE /\ str # << >>
              /\ Head(pat) = "_" \/ Fold(Head(pat)) = Fold(Head(str))
              /\ LikeMatch(Tail(pat), Tail(str))

\* A text parameter compared with an INTEGER column is converted to a
\* number when it is the text of one; otherwise it equals no integer.
NumericAffinity(text) ==
    CASE text = "1" -> Some(1)
      [] text = "2" -> Some(2)
      [] OTHER -> Null

\* A LEFT JOIN's right side: the matching rows, or one NULL row.
LeftJoin(S) == IF S = {} THEN { Null } ELSE { Some(r) : r \in S }

\* COUNT(DISTINCT col) over the joined rows: NULLs are not counted.
CountDistinct(vals) == Cardinality({ v[1] : v \in vals \ { Null } })

Min(S) == CHOOSE m \in S : \A x \in S : m <= x

SqlMin_ZeroWhenEmpty(vals) ==
    LET nonnull == { v[1] : v \in vals \ { Null } }
    IN  IF nonnull = {} THEN Some(0) ELSE Some(Min(nonnull))

\* MIN(col) over the joined rows: NULL when every value is NULL.
SqlMin(vals) ==
    LET nonnull == { v[1] : v \in vals \ { Null } }
    IN  IF nonnull = {} THEN Null ELSE Some(Min(nonnull))

\* The orders ORDER BY key allows: ascending, rows with equal keys in any order.
RECURSIVE SeqsOrderedBy(_, _)
SeqsOrderedBy(S, key) ==
    IF S = {} THEN { << >> }
    ELSE LET m == Min({ key[r] : r \in S })
         IN  UNION { { <<r>> \o q : q \in SeqsOrderedBy(S \ {r}, key) } :
                     r \in { x \in S : key[x] = m } }

\* Byte of a character, and a number ordering texts of up to three
\* characters as the BINARY collation does.
CharCode(c) ==
    CASE c = "%" -> 37 [] c = "A" -> 65 [] c = "B" -> 66 [] c = "_" -> 95
      [] c = "a" -> 97 [] c = "b" -> 98

NameKey(name) ==
    LET at(i) == IF i <= Len(name) THEN CharCode(name[i]) ELSE 0
    IN  (at(1) * 128 + at(2)) * 128 + at(3)

-----------------------------------------------------------------------------
(* cards: the catalog *)

ActiveListingsOf_AnyStatus(tbl, card_id) ==
    { l \in tbl : l.card_id = card_id }

\* listings ON cards.id = listings.card_id AND listings.status = 'active'
ActiveListingsOf(tbl, card_id) ==
    { l \in tbl : l.card_id = card_id /\ l.status = "active" }

\* user_cards ON cards.id = uc.card_id AND uc.list_type = <list_type>
UserCardsOf(tbl, card_id, list_type) ==
    { uc \in tbl : uc.card_id = card_id /\ uc.list_type = list_type }

\* cards JOIN sets ON cards.set_id = sets.id
CardsWithSets ==
    { cs \in { [card |-> c, set |-> st] : c \in CardsTable, st \in SetsTable } :
        cs.card.set_id = cs.set.id }

\* The rows of one card after the three LEFT JOINs.
CatalogJoin(ltbl, uctbl, card_id) ==
    { [have |-> h, want |-> w, listing |-> l] :
        h \in LeftJoin(UserCardsOf(uctbl, card_id, "have")),
        w \in LeftJoin(UserCardsOf(uctbl, card_id, "want")),
        l \in LeftJoin(ActiveListingsOf(ltbl, card_id)) }

Id(opt) == IF opt = Null THEN Null ELSE Some(opt[1].id)

Price(opt) == IF opt = Null THEN Null ELSE Some(opt[1].price)

CatalogRow_CountingJoinedRows(ltbl, uctbl, cs) ==
    LET joined == CatalogJoin(ltbl, uctbl, cs.card.id)
    IN  [id |-> cs.card.id, set_id |-> cs.card.set_id, name |-> cs.card.name,
         set_name |-> cs.set.name, series |-> cs.set.series,
         have_count |-> Cardinality({ j \in joined : j.have # Null }),
         want_count |-> Cardinality({ j \in joined : j.want # Null }),
         floor_price |-> SqlMin({ Price(j.listing) : j \in joined })]

\* One GROUP BY cards.id group: the card, its set and the aggregates.
CatalogRow(ltbl, uctbl, cs) ==
    LET joined == CatalogJoin(ltbl, uctbl, cs.card.id)
    IN  [id |-> cs.card.id, set_id |-> cs.card.set_id, name |-> cs.card.name,
         set_name |-> cs.set.name, series |-> cs.set.series,
         have_count |-> CountDistinct({ Id(j.have) : j \in joined }),
         want_count |-> CountDistinct({ Id(j.want) : j \in joined }),
         floor_price |-> SqlMin({ Price(j.listing) : j \in joined })]

\* The conditions list: one entry per non-empty filter.
SearchCondition(search, cs) ==
    search = << >> \/ LikeMatch(<<"%">> \o search \o <<"%">>, cs.card.name)

SetCondition(set_filter, cs) ==
    set_filter = "" \/ NumericAffinity(set_filter) = Some(cs.set.id)

CatalogWhere_AnyCondition(search, set_filter, cs) ==
    \/ search = << >> /\ set_filter = ""
    \/ search # << >> /\ SearchCondition(search, cs)
    \/ set_filter # "" /\ SetCondition(set_filter, cs)

\* ' WHERE ' + ' AND '.join(conditions), when there are conditions.
CatalogWhere(search, set_filter, cs) ==
    SearchCondition(search, cs) /\ SetCondition(set_filter, cs)

\* The grouped rows of the catalog query, before ORDER BY.
CatalogRows(ltbl, uctbl, search, set_filter) ==
    { CatalogRow(ltbl, uctbl, cs) :
        cs \in { x \in CardsWithSets : CatalogWhere(search, set_filter, x) } }

\* cards_list: the rows in an order ORDER BY cards.name allows.
CatalogResults(ltbl, uctbl, search, set_filter) ==
    LET rows == CatalogRows(ltbl, uctbl, search, set_filter)
    IN  SeqsOrderedBy(rows, [r \in rows |-> NameKey(r.name)])

\* SELECT * FROM sets ORDER BY name ("Base" sorts before "Jungle")
SetsByName ==
    SeqsOrderedBy(SetsTable,
                  [st \in SetsTable |-> IF st.name = "Base" THEN 1 ELSE 2])

\* The page handlers only read: each runs as one step, one request at a time.
NoRequestInProgress == \A t \in Sessions : pc[t] = "idle"

\* What cards() may return on the tables ltbl (listings), uctbl (user_cards).
cards_view(ltbl, uctbl, search, set_filter) ==
    { [kind |-> "render", page |-> "cards", flash |-> NoFlash,
       cards |-> cards_list, sets |-> sets_list] :
        cards_list \in CatalogResults(ltbl, uctbl, search, set_filter),
        sets_list \in SetsByName }

\* ' AND '.join(conditions)
RECURSIVE JoinAnd(_)
JoinAnd(conditions) ==
    IF Len(conditions) <= 1 THEN conditions
    ELSE << conditions[1], " AND " >> \o JoinAnd(Tail(conditions))

CatalogQuery_Interpolated(search, set_filter) ==
    LET conditions ==
            (IF search # << >>
             THEN << <<"cards.name LIKE '%">> \o search \o <<"%'">> >> ELSE << >>)
            \o (IF set_filter # "" THEN << <<"sets.id = ", set_filter>> >> ELSE << >>)
        where == IF conditions = << >> THEN << >>
                 ELSE IF Len(conditions) = 1 THEN <<" WHERE ">> \o conditions[1]
                 ELSE <<" WHERE ">> \o conditions[1] \o <<" AND ">> \o conditions[2]
    IN  Query(<<"SELECT cards.*, ... FROM cards JOIN sets ... LEFT JOIN listings ...">>
                  \o where \o <<" GROUP BY cards.id ORDER BY cards.name">>,
              << >>)

\* The catalog statement cards() puts together and the params it binds.
CatalogQuery(search, set_filter) ==
    LET conditions ==
            (IF search # << >> THEN <<"cards.name LIKE ?">> ELSE << >>)
            \o (IF set_filter # "" THEN <<"sets.id = ?">> ELSE << >>)
        params ==
            (IF search # << >> THEN << <<"%">> \o search \o <<"%">> >> ELSE << >>)
            \o (IF set_filter # "" THEN << set_filter >> ELSE << >>)
        where == IF conditions # << >>
                 THEN <<" WHERE ">> \o JoinAnd(conditions) ELSE << >>
    IN  Query(<<"SELECT cards.*, ... FROM cards JOIN sets ... LEFT JOIN listings ...">>
                  \o where \o <<" GROUP BY cards.id ORDER BY cards.name">>,
              params)

cards_queries(search, set_filter) ==
    << CatalogQuery(search, set_filter),
       Query(<<"SELECT * FROM sets ORDER BY name">>, << >>) >>

cards(s, search, set_filter) ==
    /\ NoRequestInProgress
    /\ req' = [req EXCEPT ![s] = [route |-> "cards", method |-> "GET",
                                  search |-> search, set |-> set_filter]]
    /\ \E r \in cards_view(listings, user_cards, search, set_filter) :
           resp' = [resp EXCEPT ![s] = r]
    /\ Queries(s, cards_queries(search, set_filter))
    /\ pc' = [pc EXCEPT ![s] = "done"]
    /\ UNCHANGED <<users, listings, user_cards, session, registered, pending>>

-----------------------------------------------------------------------------
(* Rows shared by the listing queries *)

Take(q, n) == SubSeq(q, 1, IF Len(q) < n THEN Len(q) ELSE n)

UserRows == { users[i] : i \in 1..Len(users) }

CardName(card_id) == (CHOOSE c \in CardsTable : c.id = card_id).name

\* listings.* with the columns of the joined card, set and seller:
\* JOIN cards ... JOIN sets ... JOIN users ... WHERE listings.status = 'active'
ActiveListingRows(ltbl) ==
    { r \in { [listing |-> l, card |-> cs, user |-> u] :
                l \in { x \in ltbl : x.status = "active" },
                cs \in CardsWithSets, u \in UserRows } :
        r.listing.card_id = r.card.card.id /\ r.listing.user_id = r.user.id }

ListingRow(r) ==
    [listing |-> r.listing, card_name |-> r.card.card.name,
     set_name |-> r.card.set.name, username |-> r.user.username]

\* ... ORDER BY listings.created_at DESC
ListingsNewestFirst(ltbl) ==
    LET rows == { ListingRow(r) : r \in ActiveListingRows(ltbl) }
    IN  SeqsOrderedBy(rows, [r \in rows |-> 0 - r.listing.created_at])

-----------------------------------------------------------------------------
(* index: the homepage *)

RecentListingsLimit == 6

UpcomingEventsLimit == 3

\* Table events (start_datetime as a number) and table event_attendance.
EventsTable == { [id |-> 1, name |-> "Regional", start_datetime |-> 10],
                 [id |-> 2, name |-> "Worlds", start_datetime |-> 20] }

EventAttendanceTable == { [id |-> 1, event_id |-> 1, user_id |-> 1],
                          [id |-> 2, event_id |-> 1, user_id |-> 2] }

\* Values of datetime("now").
Times == {5, 15}

\* events LEFT JOIN event_attendance WHERE start_datetime >= now
\* GROUP BY events.id ORDER BY events.start_datetime LIMIT 3
UpcomingEvents(now) ==
    LET rows == { [event |-> e,
                   attendee_count |->
                     Cardinality({ a \in EventAttendanceTable : a.event_id = e.id })] :
                  e \in { x \in EventsTable : x.start_datetime >= now } }
    IN  { Take(q, UpcomingEventsLimit) :
            q \in SeqsOrderedBy(rows, [r \in rows |-> r.event.start_datetime]) }

\* SELECT COUNT(*) FROM listings WHERE status = 'active'
CountActiveListings(ltbl) == Cardinality({ l \in ltbl : l.status = "active" })

index_view(ltbl, now) ==
    { [kind |-> "render", page |-> "index", flash |-> NoFlash,
       total_cards |-> Cardinality(CardsTable),
       active_listings |-> CountActiveListings(ltbl),
       upcoming_events |->
           Cardinality({ e \in EventsTable : e.start_datetime >= now }),
       active_users |-> Len(users),
       listings |-> Take(recent, RecentListingsLimit),
       events |-> upcoming] :
        recent \in ListingsNewestFirst(ltbl), upcoming \in UpcomingEvents(now) }

index_queries ==
    << Query(<<"SELECT COUNT(*) as count FROM cards">>, << >>),
       Query(<<"SELECT COUNT(*) as count FROM listings WHERE status = 'active'">>, << >>),
       Query(<<"SELECT COUNT(*) as count FROM events WHERE start_datetime >= datetime(\"now\")">>,
             << >>),
       Query(<<"SELECT COUNT(*) as count FROM users">>, << >>),
       Query(<<"SELECT listings.*, ... WHERE listings.status = 'active' ORDER BY listings.created_at DESC LIMIT 6">>,
             << >>),
       Query(<<"SELECT events.*, COUNT(event_attendance.id) ... ORDER BY events.start_datetime LIMIT 3">>,
             << >>) >>

index(s, now) ==
    /\ NoRequestInProgress
    /\ req' = [req EXCEPT ![s] = [route |-> "index", method |-> "GET", now |-> now]]
    /\ \E r \in index_view(listings, now) : resp' = [resp EXCEPT ![s] = r]
    /\ Queries(s, index_queries)
    /\ pc' = [pc EXCEPT ![s] = "done"]
    /\ UNCHANGED <<users, listings, user_cards, session, registered, pending>>

-----------------------------------------------------------------------------
(* listings: the listings page *)

listings_view(ltbl) ==
    { [kind |-> "render", page |-> "listings", flash |-> NoFlash,
       listings |-> all_listings] :
        all_listings \in ListingsNewestFirst(ltbl) }

listings_queries ==
    << Query(<<"SELECT listings.*, ... WHERE listings.status = 'active' ORDER BY listings.created_at DESC">>,
             << >>) >>

ListingsPage(s) ==
    /\ NoRequestInProgress
    /\ req' = [req EXCEPT ![s] = [route |-> "listings", method |-> "GET"]]
    /\ \E r \in listings_view(listings) : resp' = [resp EXCEPT ![s] = r]
    /\ Queries(s, listings_queries)
    /\ pc' = [pc EXCEPT ![s] = "done"]
    /\ UNCHANGED <<users, listings, user_cards, session, registered, pending>>

-----------------------------------------------------------------------------
(* card_detail *)

\* Path parameter <int:card_id>.
CardIds == {1, 2, 3, 9}

CardListings_NewestFirst(ltbl, card_id) ==
    LET rows == { [listing |-> r.listing, username |-> r.user.username] :
                  r \in { x \in ActiveListingRows(ltbl) : x.listing.card_id = card_id } }
    IN  SeqsOrderedBy(rows, [r \in rows |-> 0 - r.listing.created_at])

\* listings JOIN users WHERE card_id = ? AND status = 'active' ORDER BY price
CardListings(ltbl, card_id) ==
    LET rows == { [listing |-> r.listing, username |-> r.user.username] :
                  r \in { x \in ActiveListingRows(ltbl) : x.listing.card_id = card_id } }
    IN  SeqsOrderedBy(rows, [r \in rows |-> r.listing.price])

\* user_cards JOIN users WHERE card_id = ? AND list_type = ? AND is_public = 1
PublicUserCardsOfCard(uctbl, card_id, list_type) ==
    { [user_card |-> r.uc, username |-> r.u.username] :
        r \in { x \in { [uc |-> uc, u |-> u] :
                          uc \in { y \in uctbl : /\ y.card_id = card_id
                                                 /\ y.list_type = list_type
                                                 /\ y.is_public = 1 },
                          u \in UserRows } :
                x.uc.user_id = x.u.id } }

card_detail_view(ltbl, uctbl, card_id) ==
    LET found == { cs \in CardsWithSets : cs.card.id = card_id }
    IN  IF found = {}
        THEN { Redirect("cards", Flash("Card not found", "error")) }
        ELSE { [kind |-> "render", page |-> "card_detail", flash |-> NoFlash,
                card |-> card,
                listings |-> card_listings,
                haves |-> PublicUserCardsOfCard(uctbl, card_id, "have"),
                wants |-> PublicUserCardsOfCard(uctbl, card_id, "want")] :
                 card \in found, card_listings \in CardListings(ltbl, card_id) }

card_detail_queries_All(card_id) ==
    << Query(<<"SELECT cards.*, ... FROM cards JOIN sets ... WHERE cards.id = ?">>,
             <<card_id>>),
       Query(<<"SELECT listings.*, users.username ... WHERE listings.card_id = ? AND listings.status = 'active' ORDER BY listings.price">>,
             <<card_id>>),
       Query(<<"SELECT user_cards.*, users.username ... WHERE user_cards.card_id = ? AND user_cards.list_type = 'have' AND user_cards.is_public = 1">>,
             <<card_id>>),
       Query(<<"SELECT user_cards.*, users.username ... WHERE user_cards.card_id = ? AND user_cards.list_type = 'want' AND user_cards.is_public = 1">>,
             <<card_id>>) >>

\* The lookup and, when it found the card, the three statements after it.
card_detail_queries(card_id) ==
    << Query(<<"SELECT cards.*, ... FROM cards JOIN sets ... WHERE cards.id = ?">>,
             <<card_id>>) >>
    \o (IF { c \in CardsTable : c.id = card_id } = {} THEN << >>
        ELSE << Query(<<"SELECT listings.*, users.username ... WHERE listings.card_id = ? AND listings.status = 'active' ORDER BY listings.price">>,
                      <<card_id>>),
                Query(<<"SELECT user_cards.*, users.username ... WHERE user_cards.card_id = ? AND user_cards.list_type = 'have' AND user_cards.is_public = 1">>,
                      <<card_id>>),
                Query(<<"SELECT user_cards.*, users.username ... WHERE user_cards.card_id = ? AND user_cards.list_type = 'want' AND user_cards.is_public = 1">>,
                      <<card_id>>) >>)

card_detail(s, card_id) ==
    /\ NoRequestInProgress
    /\ req' = [req EXCEPT ![s] = [route |-> "card_detail", method |-> "GET",
                                  card_id |-> card_id]]
    /\ \E r \in card_detail_view(listings, user_cards, card_id) :
           resp' = [resp EXCEPT ![s] = r]
    /\ Queries(s, card_detail_queries(card_id))
    /\ pc' = [pc EXCEPT ![s] = "done"]
    /\ UNCHANGED <<users, listings, user_cards, session, registered, pending>>

-----------------------------------------------------------------------------
(* events and event_detail *)

EventCardsTable == { [id |-> 1, event_id |-> 1, card_id |-> 1, user_id |-> 1],
                     [id |-> 2, event_id |-> 1, card_id |-> 2, user_id |-> 2],
                     [id |-> 3, event_id |-> 1, card_id |-> 3, user_id |-> 1] }

\* Path parameter <int:event_id>.
EventIds == {1, 2, 9}

\* The rows of one event after the two LEFT JOINs.
EventJoin(event_id) ==
    { [attendance |-> a, event_card |-> c] :
        a \in LeftJoin({ x \in EventAttendanceTable : x.event_id = event_id }),
        c \in LeftJoin({ x \in EventCardsTable : x.event_id = event_id }) }

\* One GROUP BY events.id group.
EventRow(e) ==
    LET joined == EventJoin(e.id)
    IN  [event |-> e,
         attendee_count |-> CountDistinct({ Id(j.attendance) : j \in joined }),
         cards_count |-> CountDistinct({ Id(j.event_card) : j \in joined })]

\* ... GROUP BY events.id ORDER BY events.start_datetime
EventsResults ==
    LET rows == { EventRow(e) : e \in EventsTable }
    IN  SeqsOrderedBy(rows, [r \in rows |-> r.event.start_datetime])

events_view ==
    { [kind |-> "render", page |-> "events", flash |-> NoFlash,
       events |-> all_events] : all_events \in EventsResults }

events_queries ==
    << Query(<<"SELECT events.*, COUNT(DISTINCT event_attendance.id) ..., COUNT(DISTINCT event_cards.id) ... GROUP BY events.id ORDER BY events.start_datetime">>,
             << >>) >>

events(s) ==
    /\ NoRequestInProgress
    /\ req' = [req EXCEPT ![s] = [route |-> "events", method |-> "GET"]]
    /\ \E r \in events_view : resp' = [resp EXCEPT ![s] = r]
    /\ Queries(s, events_queries)
    /\ pc' = [pc EXCEPT ![s] = "done"]
    /\ UNCHANGED <<users, listings, user_cards, session, registered, pending>>

\* event_attendance JOIN users WHERE event_attendance.event_id = ?
Attendees(event_id) ==
    { [attendance |-> r.a, username |-> r.u.username] :
        r \in { x \in { [a |-> a, u |-> u] :
                          a \in { y \in EventAttendanceTable : y.event_id = event_id },
                          u \in UserRows } :
                x.a.user_id = x.u.id } }

\* event_cards JOIN cards JOIN users WHERE event_cards.event_id = ?
CardsAtEvent(event_id) ==
    { [event_card |-> r.c, name |-> CardName(r.c.card_id), username |-> r.u.username] :
        r \in { x \in { [c |-> c, u |-> u] :
                          c \in { y \in EventCardsTable : y.event_id = event_id },
                          u \in UserRows } :
                x.c.user_id = x.u.id } }

event_detail_view(event_id) ==
    LET found == { e \in EventsTable : e.id = event_id }
    IN  IF found = {}
        THEN { Redirect("events", Flash("Event not found", "error")) }
        ELSE { [kind |-> "render", page |-> "event_detail", flash |-> NoFlash,
                event |-> event,
                attendees |-> Attendees(event_id),
                cards_at_event |-> CardsAtEvent(event_id)] : event \in found }

\* The lookup and, when it found the event, the two statements after it.
event_detail_queries(event_id) ==
    << Query(<<"SELECT * FROM events WHERE id = ?">>, <<event_id>>) >>
    \o (IF { e \in EventsTable : e.id = event_id } = {} THEN << >>
        ELSE << Query(<<"SELECT users.username, ... FROM event_attendance JOIN users ... WHERE event_attendance.event_id = ?">>,
                      <<event_id>>),
                Query(<<"SELECT event_cards.*, cards.name, ... FROM event_cards JOIN cards ... JOIN users ... WHERE event_cards.event_id = ?">>,
                      <<event_id>>) >>)

event_detail(s, event_id) ==
    /\ NoRequestInProgress
    /\ req' = [req EXCEPT ![s] = [route |-> "event_detail", method |-> "GET",
                                  event_id |-> event_id]]
    /\ \E r \in event_detail_view(event_id) : resp' = [resp EXCEPT ![s] = r]
    /\ Queries(s, event_detail_queries(event_id))
    /\ pc' = [pc EXCEPT ![s] = "done"]
    /\ UNCHANGED <<users, listings, user_cards, session, registered, pending>>

-----------------------------------------------------------------------------
(* binders: the list of users *)

\* The rows of one user after the two LEFT JOINs.
BinderJoin(ltbl, uctbl, user_id) ==
    { [user_card |-> uc, listing |-> l] :
        uc \in LeftJoin({ x \in uctbl : x.user_id = user_id }),
        l \in LeftJoin({ x \in ltbl : x.user_id = user_id /\ x.status = "active" }) }

\* CASE WHEN user_cards.list_type = <list_type> THEN user_cards.id END
IdWhenListType(opt, list_type) ==
    IF opt # Null /\ opt[1].list_type = list_type THEN Some(opt[1].id) ELSE Null

BinderRow(ltbl, uctbl, u) ==
    LET joined == BinderJoin(ltbl, uctbl, u.id)
    IN  [user |-> u,
         have_count |->
             CountDistinct({ IdWhenListType(j.user_card, "have") : j \in joined }),
         want_count |->
             CountDistinct({ IdWhenListType(j.user_card, "want") : j \in joined }),
         listing_count |-> CountDistinct({ Id(j.listing) : j \in joined })]

\* ... GROUP BY users.id ORDER BY have_count DESC
BindersResults(ltbl, uctbl) ==
    LET rows == { BinderRow(ltbl, uctbl, u) : u \in UserRows }
    IN  SeqsOrderedBy(rows, [r \in rows |-> 0 - r.have_count])

binders_view(ltbl, uctbl) ==
    { [kind |-> "render", page |-> "binders", flash |-> NoFlash,
       users |-> users_list] :
        users_list \in BindersResults(ltbl, uctbl) }

binders_queries ==
    << Query(<<"SELECT users.*, COUNT(DISTINCT ...) ... GROUP BY users.id ORDER BY have_count DESC">>,
             << >>) >>

binders(s) ==
    /\ NoRequestInProgress
    /\ req' = [req EXCEPT ![s] = [route |-> "binders", method |-> "GET"]]
    /\ \E r \in binders_view(listings, user_cards) : resp' = [resp EXCEPT ![s] = r]
    /\ Queries(s, binders_queries)
    /\ pc' = [pc EXCEPT ![s] = "done"]
    /\ UNCHANGED <<users, listings, user_cards, session, registered, pending>>

-----------------------------------------------------------------------------
(* user_binder and my_binder *)

\* Path parameter <username>.
BinderNames == Usernames \cup {"brock"}

\* user_cards JOIN cards JOIN sets WHERE user_id = ? AND list_type = ?
\* ORDER BY cards.name: the owner's rows, public or not.
BinderCards(uctbl, user_id, list_type) ==
    LET rows == { [user_card |-> r.uc, name |-> r.cs.card.name,
                   set_name |-> r.cs.set.name] :
                  r \in { x \in { [uc |-> uc, cs |-> cs] :
                                    uc \in { y \in uctbl : /\ y.user_id = user_id
                                                           /\ y.list_type = list_type },
                                    cs \in CardsWithSets } :
                          x.uc.card_id = x.cs.card.id } }
    IN  SeqsOrderedBy(rows, [r \in rows |-> NameKey(r.name)])

PublicBinderCards_All(uctbl, user_id, list_type) ==
    BinderCards(uctbl, user_id, list_type)

\* ... AND user_cards.is_public = 1 ORDER BY cards.name
PublicBinderCards(uctbl, user_id, list_type) ==
    BinderCards({ uc \in uctbl : uc.is_public = 1 }, user_id, list_type)

\* listings JOIN cards WHERE listings.user_id = ? AND listings.status = 'active'
UserListings(ltbl, user_id) ==
    { [listing |-> l, name |-> CardName(l.card_id)] :
        l \in { x \in ltbl : x.user_id = user_id /\ x.status = "active" } }

user_binder_view(ltbl, uctbl, username) ==
    LET user == QueryOne(UsersByUsername(username))
    IN  IF user = Null
        THEN { Redirect("binders", Flash("User not found", "error")) }
        ELSE { [kind |-> "render", page |-> "user_binder", flash |-> NoFlash,
                user |-> user[1], haves |-> haves, wants |-> wants,
                listings |-> UserListings(ltbl, user[1].id)] :
                 haves \in PublicBinderCards(uctbl, user[1].id, "have"),
                 wants \in PublicBinderCards(uctbl, user[1].id, "want") }

\* The lookup and, when it found the user, the three statements after it.
user_binder_queries(username) ==
    LET user == QueryOne(UsersByUsername(username))
    IN  << Query(<<"SELECT * FROM users WHERE username = ?">>, <<username>>) >>
        \o (IF user = Null THEN << >>
            ELSE << Query(<<"SELECT user_cards.*, ... WHERE user_cards.user_id = ? AND user_cards.list_type = 'have' AND user_cards.is_public = 1 ORDER BY cards.name">>,
                          <<user[1].id>>),
                    Query(<<"SELECT user_cards.*, ... WHERE user_cards.user_id = ? AND user_cards.list_type = 'want' AND user_cards.is_public = 1 ORDER BY cards.name">>,
                          <<user[1].id>>),
                    Query(<<"SELECT listings.*, ... WHERE listings.user_id = ? AND listings.status = 'active'">>,
                          <<user[1].id>>) >>)

user_binder_OwnerSeesAll(s, username) ==
    /\ NoRequestInProgress
    /\ req' = [req EXCEPT ![s] = [route |-> "user_binder", method |-> "GET",
                                  username |-> username]]
    /\ LET user == QueryOne(UsersByUsername(username))
           own  == /\ user # Null
                   /\ "user_id" \in DOMAIN session[s]
                   /\ session[s].user_id = user[1].id
       IN  \E r \in user_binder_view(listings, user_cards, username) :
               IF own
               THEN \E haves \in BinderCards(user_cards, user[1].id, "have"),
                       wants \in BinderCards(user_cards, user[1].id, "want") :
                        resp' = [resp EXCEPT ![s] =
                                    [r EXCEPT !.haves = haves, !.wants = wants]]
               ELSE resp' = [resp EXCEPT ![s] = r]
    /\ Queries(s, user_binder_queries(username))
    /\ pc' = [pc EXCEPT ![s] = "done"]
    /\ UNCHANGED <<users, listings, user_cards, session, registered, pending>>

user_binder(s, username) ==
    /\ NoRequestInProgress
    /\ req' = [req EXCEPT ![s] = [route |-> "user_binder", method |-> "GET",
                                  username |-> username]]
    /\ \E r \in user_binder_view(listings, user_cards, username) :
           resp' = [resp EXCEPT ![s] = r]
    /\ Queries(s, user_binder_queries(username))
    /\ pc' = [pc EXCEPT ![s] = "done"]
    /\ UNCHANGED <<users, listings, user_cards, session, registered, pending>>

\* What my_binder() may return for the session dictionary sess.
my_binder_view(uctbl, sess) ==
    IF "user_id" \notin DOMAIN sess
    THEN { Redirect("login", Flash("Please login to view your binder", "error")) }
    ELSE { [kind |-> "render", page |-> "my_binder", flash |-> NoFlash,
            haves |-> haves, wants |-> wants] :
             haves \in BinderCards(uctbl, sess.user_id, "have"),
             wants \in BinderCards(uctbl, sess.user_id, "want") }

my_binder_queries_BeforeTheTest(sess) ==
    LET user_id == IF "user_id" \in DOMAIN sess THEN Some(sess.user_id) ELSE Null
    IN  << Query(<<"SELECT user_cards.*, ... WHERE user_cards.user_id = ? AND user_cards.list_type = 'have' ORDER BY cards.name">>,
                 <<user_id>>),
           Query(<<"SELECT user_cards.*, ... WHERE user_cards.user_id = ? AND user_cards.list_type = 'want' ORDER BY cards.name">>,
                 <<user_id>>) >>

\* No statement before the redirect; the two binder statements otherwise.
my_binder_queries(sess) ==
    IF "user_id" \notin DOMAIN sess THEN << >>
    ELSE << Query(<<"SELECT user_cards.*, ... WHERE user_cards.user_id = ? AND user_cards.list_type = 'have' ORDER BY cards.name">>,
                  <<sess.user_id>>),
            Query(<<"SELECT user_cards.*, ... WHERE user_cards.user_id = ? AND user_cards.list_type = 'want' ORDER BY cards.name">>,
                  <<sess.user_id>>) >>

my_binder(s) ==
    /\ NoRequestInProgress
    /\ req' = [req EXCEPT ![s] = [route |-> "my_binder", method |-> "GET"]]
    /\ \E r \in my_binder_view(user_cards, session[s]) :
           resp' = [resp EXCEPT ![s] = r]
    /\ Queries(s, my_binder_queries(session[s]))
    /\ pc' = [pc EXCEPT ![s] = "done"]
    /\ UNCHANGED <<users, listings, user_cards, session, registered, pending>>

-----------------------------------------------------------------------------
(* The page-view specification: a database with accounts, listings and     *)
(* binder entries; sessions log in and out and request pages.              *)

InitViews ==
    /\ users = ViewUsers
    /\ listings \in SUBSET ListingPool
    /\ user_cards \in SUBSET UserCardPool
    /\ session = [s \in Sessions |-> EmptySession]
    /\ g = [s \in Sessions |-> "none"]
    /\ pc = [s \in Sessions |-> "idle"]
    /\ req = [s \in Sessions |-> NoReq]
    /\ resp = [s \in Sessions |-> NoResp]
    /\ registered = { [id |-> 1, username |-> "ash", password |-> "pikachu123"],
                      [id |-> 2, username |-> "misty", password |-> "pikachu123"] }
    /\ sql = [s \in Sessions |-> << >>]
    /\ opened = [s \in Sessions |-> 0]
    /\ nopen = 0
    /\ pending = [s \in Sessions |-> << >>]

NextViews ==
    \/ NoRequestInProgress /\ \E s \in Sessions : LoginGet(s)
    \/ NoRequestInProgress /\ \E s \in Sessions, u \in Usernames, p \in Passwords :
           LoginPost(s, u, p)
    \/ NoRequestInProgress /\ \E s \in Sessions : RegisterGet(s)
    \/ NoRequestInProgress /\ \E s \in Sessions, u \in Usernames, e \in Emails,
                                  p \in Passwords :
           RegisterCheck(s, u, e, p)
    \/ NoRequestInProgress /\ \E s \in Sessions : Logout(s)
    \/ NoRequestInProgress /\ \E s \in Sessions, search \in SearchTerms,
                                  set_filter \in SetFilters :
           cards(s, search, set_filter)
    \/ NoRequestInProgress /\ \E s \in Sessions, now \in Times : index(s, now)
    \/ NoRequestInProgress /\ \E s \in Sessions : ListingsPage(s)
    \/ NoRequestInProgress /\ \E s \in Sessions, card_id \in CardIds :
           card_detail(s, card_id)
    \/ NoRequestInProgress /\ \E s \in Sessions : events(s)
    \/ NoRequestInProgress /\ \E s \in Sessions, event_id \in EventIds :
           event_detail(s, event_id)
    \/ NoRequestInProgress /\ \E s \in Sessions : binders(s)
    \/ NoRequestInProgress /\ \E s \in Sessions, username \in BinderNames :
           user_binder(s, username)
    \/ NoRequestInProgress /\ \E s \in Sessions : my_binder(s)
    \/ \E s \in Sessions : close_connection(s)

SpecViews == InitViews /\ [][NextViews]_vars

-----------------------------------------------------------------------------
(* Responses the claims name *)

RespTaken == Render("register", Flash("Username or email already exists", "error"))

RespRegistered ==
    Redirect("login", Flash("Registration successful! Please login.", "success"))

RespLoginOk == Redirect("index", Flash("Login successful!", "success"))

RespInvalid == Render("login", Flash("Invalid username or password", "error"))

\* Some users row has this username or this email.
UsernameOrEmailPresent(username, email) ==
    \E i \in 1..Len(users) :
        users[i].username = username \/ users[i].email = email

NoSuchUsername(username) ==
    \A i \in 1..Len(users) : users[i].username # username

\* The password the registration that created row `id` was given.
PasswordOfRow(id) == (CHOOSE r \in registered : r.id = id).password

\* The username exists and the row login looks up (the first one in rowid
\* order) was registered with another password.
PasswordMismatch(username, password) ==
    /\ ~NoSuchUsername(username)
    /\ PasswordOfRow(UsersByUsername(username)[1].id) # password

-----------------------------------------------------------------------------
(* C1: a register POST whose username or email is that of a users row at   *)
(* the time of its existence check reports 'Username or email already      *)
(* exists', returns without reaching the insert, and leaves the users      *)
(* table as it was.                                                        *)
C1_DuplicateRejected ==
    [][\A s \in Sessions, u \in Usernames, e \in Emails, p \in Passwords :
          (RegisterCheck(s, u, e, p) /\ UsernameOrEmailPresent(u, e))
              => /\ resp'[s] = RespTaken
                 /\ pc'[s] = "done"
                 /\ users' = users]_vars

\* A POST with a fresh username and a taken email has been rejected.
C1_Witness ==
    \E s \in Sessions :
        /\ pc[s] = "done" /\ req[s].route = "register" /\ req[s].method = "POST"
        /\ resp[s] = RespTaken
        /\ NoSuchUsername(req[s].username)
        /\ \E i \in 1..Len(users) : users[i].email = req[s].email

(* C2: no two rows of the users table have the same username, and no two   *)
(* have the same email, after any interleaving of register requests.       *)
C2_UniqueUsers ==
    \A i, j \in 1..Len(users) :
        i # j => /\ users[i].username # users[j].username
                 /\ users[i].email # users[j].email

(* C3: after a successful registration of (u, p), a login POST with (u, p) *)
(* succeeds and binds the session to the id and username of the row that   *)
(* registration created; a login POST with u and another password fails    *)
(* with 'Invalid username or password'.                                    *)
C3_LoginAfterRegister ==
    [][\A s \in Sessions, u \in Usernames, p \in Passwords :
          LoginPost(s, u, p) =>
              \A r \in registered :
                  r.username = u =>
                      IF r.password = p
                      THEN /\ resp'[s] = RespLoginOk
                           /\ session'[s] = [user_id |-> r.id, username |-> u]
                      ELSE resp'[s] = RespInvalid]_vars

(* C4: a failed login has the same outcome whether the username does not   *)
(* exist or it exists and the password does not match: the same flash and  *)
(* re-rendered form, and sessions and storage as they were.                *)
C4_LoginFailureUniform ==
    [][\A s \in Sessions, u \in Usernames, p \in Passwords :
          (LoginPost(s, u, p) /\ (NoSuchUsername(u) \/ PasswordMismatch(u, p)))
              => /\ resp'[s] = RespInvalid
                 /\ session' = session
                 /\ users' = users]_vars

\* Both kinds of failed login are awaiting teardown at once: session 1 gave
\* an unknown username, session 2 a known one with the wrong password.
C4_Witness ==
    /\ pc[1] = "done" /\ req[1].route = "login" /\ req[1].method = "POST"
    /\ pc[2] = "done" /\ req[2].route = "login" /\ req[2].method = "POST"
    /\ NoSuchUsername(req[1].username)
    /\ PasswordMismatch(req[2].username, req[2].password)
    /\ resp[1] = RespInvalid /\ resp[2] = RespInvalid

-----------------------------------------------------------------------------
(* Vocabulary of the page-view claims *)

\* A handler of session s has returned and its request has not ended yet.
Returned(s, route) == pc[s] = "done" /\ req[s].route = route

Rendered(s, route) == Returned(s, route) /\ resp[s].kind = "render"

Range(q) == { q[i] : i \in 1..Len(q) }

ActiveOnly(ltbl) == { l \in ltbl : l.status = "active" }

\* The user id the session of s carries, if any.
Viewer(s) == IF "user_id" \in DOMAIN session[s] THEN Some(session[s].user_id) ELSE Null

\* What the page handler of the request of s may return on other tables.
ViewOn(ltbl, uctbl, s) ==
    CASE req[s].route = "cards" ->
             cards_view(ltbl, uctbl, req[s].search, req[s].set)
      [] req[s].route = "index" -> index_view(ltbl, req[s].now)
      [] req[s].route = "listings" -> listings_view(ltbl)
      [] req[s].route = "card_detail" -> card_detail_view(ltbl, uctbl, req[s].card_id)
      [] req[s].route = "binders" -> binders_view(ltbl, uctbl)
      [] req[s].route = "user_binder" -> user_binder_view(ltbl, uctbl, req[s].username)
      [] req[s].route = "my_binder" -> my_binder_view(uctbl, session[s])
      [] req[s].route = "events" -> events_view
      [] req[s].route = "event_detail" -> event_detail_view(req[s].event_id)

\* s occurs in name as a contiguous run of characters, letter case ignored.
ContainsIgnoreCase(s, name) ==
    \E i \in 1..(Len(name) - Len(s) + 1) :
        \A k \in 1..Len(s) : Fold(name[i + k - 1]) = Fold(s[k])

\* The ids of the cards a catalog response lists.
CardIdsOf(cards_list) == { r.id : r \in Range(cards_list) }

AllCardIds == { c.id : c \in CardsTable }

\* The cards the catalog returns with one filter alone.
WithSearchAlone(search) ==
    { r.id : r \in CatalogRows(listings, user_cards, search, "") }

WithSetAlone(set_filter) ==
    { r.id : r \in CatalogRows(listings, user_cards, << >>, set_filter) }

-----------------------------------------------------------------------------
(* C5: a user_cards row with is_public = 0 is invisible to third parties:  *)
(* the card catalog, card detail, binders list and user binder requested   *)
(* by a session that is not the row's owner respond as if the row did not  *)
(* exist.                                                                  *)
C5_PrivateRowsInvisible ==
    \A s \in Sessions :
        \A uc \in user_cards :
            ( /\ pc[s] = "done"
              /\ req[s].route \in {"cards", "card_detail", "binders", "user_binder"}
              /\ uc.is_public = 0
              /\ Viewer(s) # Some(uc.user_id) )
                => resp[s] \in ViewOn(listings, user_cards \ {uc}, s)

(* C6: a private want row of user U is among the wants of my-binder when   *)
(* the session is U's, and is in neither the wants nor the haves of        *)
(* /binders/<U's username> requested by another viewer.                    *)
C6_PrivateWantOwnerOnly ==
    \A s \in Sessions :
        \A uc \in { x \in user_cards : x.list_type = "want" /\ x.is_public = 0 } :
            /\ ( Rendered(s, "my_binder") /\ Viewer(s) = Some(uc.user_id) )
                  => \E r \in Range(resp[s].wants) : r.user_card = uc
            /\ ( /\ Rendered(s, "user_binder")
                 /\ resp[s].user.id = uc.user_id
                 /\ Viewer(s) # Some(uc.user_id) )
                  => \A r \in Range(resp[s].wants) \cup Range(resp[s].haves) :
                         r.user_card # uc

\* misty's session has been shown ash's public binder while ash holds a
\* private want.
C6_Witness ==
    \E s \in Sessions :
        /\ Rendered(s, "user_binder") /\ req[s].username = "ash"
        /\ Viewer(s) = Some(2)
        /\ \E uc \in user_cards :
               uc.user_id = 1 /\ uc.list_type = "want" /\ uc.is_public = 0

(* C7: a listing whose status is not 'active' is in no result of the       *)
(* catalog, the listings page, card detail, the homepage or a user binder, *)
(* and changes none of their aggregates: each responds as it would with    *)
(* the inactive listings deleted.                                          *)
C7_InactiveListingsInvisible ==
    \A s \in Sessions :
        ( /\ pc[s] = "done"
          /\ req[s].route \in {"cards", "listings", "card_detail", "index",
                               "user_binder"} )
            => /\ resp[s] \in ViewOn(ActiveOnly(listings), user_cards, s)
               /\ ( resp[s].kind = "render" /\ req[s].route \in {"listings", "index",
                                                               "card_detail"} )
                     => \A r \in Range(resp[s].listings) : r.listing.status = "active"
               /\ Rendered(s, "user_binder")
                     => \A r \in resp[s].listings : r.listing.status = "active"
               /\ Rendered(s, "index")
                     => resp[s].active_listings = Cardinality(ActiveOnly(listings))

\* The catalog has been rendered while card 1 has a sold listing cheaper
\* than its active ones.
C7_Witness ==
    \E s \in Sessions :
        /\ Rendered(s, "cards") /\ req[s].search = << >> /\ req[s].set = ""
        /\ \E l \in listings : l.status # "active" /\ l.card_id = 1
        /\ \E l \in listings : l.status = "active" /\ l.card_id = 1

(* C8: the catalog's floor_price of a card is the minimum price of the     *)
(* card's active listings, and is absent (NULL, not zero) when the card    *)
(* has none, whatever inactive listings and have/want rows it has.         *)
C8_FloorPrice ==
    \A s \in Sessions :
        Rendered(s, "cards") =>
            \A r \in Range(resp[s].cards) :
                LET prices == { l.price : l \in { x \in listings :
                                    x.card_id = r.id /\ x.status = "active" } }
                IN  /\ prices = {} => r.floor_price = Null
                    /\ prices # {} =>
                         /\ r.floor_price # Null
                         /\ r.floor_price[1] \in prices
                         /\ \A p \in prices : r.floor_price[1] <= p

\* Card 1 has the active prices 12.50, 9.99 and 20.00, a cheaper sold
\* listing and have/want rows: its floor is 9.99; card 2 has no floor.
C8_Witness ==
    \E s \in Sessions :
        /\ Rendered(s, "cards") /\ req[s].search = << >> /\ req[s].set = ""
        /\ listings = ListingPool /\ user_cards = UserCardPool
        /\ \E r \in Range(resp[s].cards) : r.id = 1 /\ r.floor_price = Some(999)
        /\ \E r \in Range(resp[s].cards) : r.id = 2 /\ r.floor_price = Null

(* C9: with a non-empty search term s (and no set filter) the catalog      *)
(* returns a card exactly when s occurs in the card's name as a contiguous *)
(* substring, case ignored; also for terms containing '%' or '_'.          *)
C9_SearchIsSubstring ==
    \A s \in Sessions :
        ( Rendered(s, "cards") /\ req[s].search # << >> /\ req[s].set = "" )
            => \A c \in CardsTable :
                   c.id \in CardIdsOf(resp[s].cards)
                       <=> ContainsIgnoreCase(req[s].search, c.name)

(* C10: with a search and a set filter the catalog returns exactly the     *)
(* cards returned with each filter alone; an empty filter constrains       *)
(* nothing, and with both empty every card is returned.                    *)
C10_FiltersCompose ==
    \A s \in Sessions :
        Rendered(s, "cards") =>
            /\ CardIdsOf(resp[s].cards) =
                   WithSearchAlone(req[s].search) \cap WithSetAlone(req[s].set)
            /\ req[s].search = << >> => CardIdsOf(resp[s].cards) = WithSetAlone(req[s].set)
            /\ req[s].set = "" => CardIdsOf(resp[s].cards) = WithSearchAlone(req[s].search)
            /\ ( req[s].search = << >> /\ req[s].set = "" )
                   => CardIdsOf(resp[s].cards) = AllCardIds

\* Both filters given, each alone returns cards the other excludes, and
\* one card passes both.
C10_Witness ==
    \E s \in Sessions :
        /\ Rendered(s, "cards") /\ req[s].search # << >> /\ req[s].set # ""
        /\ CardIdsOf(resp[s].cards) # {}
        /\ WithSearchAlone(req[s].search) \ WithSetAlone(req[s].set) # {}
        /\ WithSetAlone(req[s].set) \ WithSearchAlone(req[s].search) # {}

-----------------------------------------------------------------------------
(* C11: nothing orders two register requests for one username.  The        *)
(* existence check of a request passes whenever no users row has its       *)
(* username or email at that time, whichever other requests are between    *)
(* their own check and their insert; and a request that passed the check   *)
(* inserts its row and reports success, also when a row with its username  *)
(* has been inserted since its check.                                      *)
C11_RegisterRace ==
    [][\A s \in Sessions :
          /\ \A u \in Usernames, e \in Emails, p \in Passwords :
                 ( RegisterCheck(s, u, e, p) /\ ~UsernameOrEmailPresent(u, e) )
                     => pc'[s] = "reg_insert"
          /\ \A salt \in Salts :
                 RegisterInsert(s, salt)
                     => /\ Len(users') = Len(users) + 1
                        /\ users'[Len(users')].username = req[s].username
                        /\ resp'[s] = RespRegistered]_vars

\* Both sessions have registered the same username: each passed its check
\* before the other inserted, and both inserted.
C11_Witness ==
    /\ \A s \in Sessions : Returned(s, "register") /\ resp[s] = RespRegistered
    /\ req[1].username = req[2].username
    /\ Len(users) = 2 /\ users[1].username = users[2].username

-----------------------------------------------------------------------------
(* Sessions that outlive their account.  The session is a signed cookie    *)
(* the browser keeps; the database file is maintained outside the          *)
(* application, which itself never deletes a users row.  A cookie issued   *)
(* to an account whose row has since been removed from the database is     *)
(* still a valid cookie when the application serves its next request.      *)

StaleSession == [user_id |-> 3, username |-> "brock"]

InitStale ==
    /\ users = ViewUsers
    /\ listings \in SUBSET ListingPool
    /\ user_cards \in SUBSET UserCardPool
    /\ session = [s \in Sessions |-> IF s = 1 THEN StaleSession ELSE EmptySession]
    /\ g = [s \in Sessions |-> "none"]
    /\ pc = [s \in Sessions |-> "idle"]
    /\ req = [s \in Sessions |-> NoReq]
    /\ resp = [s \in Sessions |-> NoResp]
    /\ registered = { [id |-> 1, username |-> "ash", password |-> "pikachu123"],
                      [id |-> 2, username |-> "misty", password |-> "pikachu123"] }
    /\ sql = [s \in Sessions |-> << >>]
    /\ opened = [s \in Sessions |-> 0]
    /\ nopen = 0
    /\ pending = [s \in Sessions |-> << >>]

SpecStale == InitStale /\ [][NextViews]_vars

RespPleaseLogin == Redirect("login", Flash("Please login to view your binder", "error"))

\* The users row the session of s refers to, if there is one.
CurrentUser(s) ==
    IF Viewer(s) = Null THEN Null
    ELSE LET rows == SelectSeq(users, LAMBDA r : r.id = Viewer(s)[1])
         IN  IF rows = << >> THEN Null ELSE Some(rows[1])

(* C12: my-binder treats a session as unauthenticated (the login notice    *)
(* and the redirect, no binder) whenever the session carries no user_id    *)
(* or the user_id it carries is the id of no users row.                    *)
C12_AnonymousWithoutUserRow ==
    \A s \in Sessions :
        ( Returned(s, "my_binder") /\ CurrentUser(s) = Null )
            => resp[s] = RespPleaseLogin

-----------------------------------------------------------------------------
\* This step is the handler of a request of s for `route`.
Handles(s, route) == pc[s] = "idle" /\ pc'[s] = "done" /\ req'[s].route = route

\* This step is a login POST of s that succeeded.
LoginSucceeds(s) ==
    Handles(s, "login") /\ req'[s].method = "POST" /\ resp'[s] = RespLoginOk

(* C13 as stated: the identity a session carries changes only when that    *)
(* session logs out.                                                       *)
C13_IdentityUntilLogout ==
    [][\A s \in Sessions :
          ( Viewer(s) # Null /\ ~Handles(s, "logout") )
              => session'[s] = session[s]]_vars

(* C13: a successful login of a session as U makes U the session's         *)
(* identity, and the identity a session carries changes only when that     *)
(* session logs out or logs in again; no request of another session        *)
(* changes it.                                                             *)
C13_IdentityUntilLogoutOrLogin ==
    [][\A s \in Sessions :
          /\ LoginSucceeds(s)
                => /\ session'[s].username = req'[s].username
                   /\ session'[s].user_id = UsersByUsername(req'[s].username)[1].id
          /\ ( Viewer(s) # Null /\ session'[s] # session[s] )
                => Handles(s, "logout") \/ LoginSucceeds(s)]_vars

\* A logged-in session is at a later request (the registration form) while
\* the other session has logged out.
C13_Witness ==
    \E s, t \in Sessions :
        /\ s # t
        /\ Viewer(s) # Null /\ Returned(s, "register")
        /\ Returned(t, "logout")

-----------------------------------------------------------------------------
RespLoggedOut == Redirect("index", Flash("Logged out successfully", "success"))

(* C14: a logout answers with the logged-out notice and the redirect to    *)
(* the homepage in every state, leaves the session with neither user_id    *)
(* nor username, leaves a session that had neither as it was, and leaves   *)
(* the session one that my-binder answers with the login notice.           *)
C14_LogoutClears ==
    [][\A s \in Sessions :
          Handles(s, "logout")
              => /\ resp'[s] = RespLoggedOut
                 /\ "user_id" \notin DOMAIN session'[s]
                 /\ "username" \notin DOMAIN session'[s]
                 /\ session[s] = EmptySession => session'[s] = session[s]
                 /\ my_binder_view(user_cards', session'[s]) = { RespPleaseLogin }
                 /\ \A t \in Sessions \ {s} : session'[t] = session[t]]_vars

\* A session has logged out and carries nothing, while the other session
\* is logged in.
C14_Witness ==
    \E s, t \in Sessions :
        /\ Returned(s, "logout") /\ session[s] = EmptySession
        /\ Viewer(t) # Null

-----------------------------------------------------------------------------
(* C15: a my-binder request of a session without user_id executes no       *)
(* statement and opens no connection, and is answered with the login       *)
(* notice (category error) and the redirect to login, which carries no     *)
(* user_cards row.                                                         *)
C15_MyBinderRequiresLogin ==
    \A s \in Sessions :
        ( Returned(s, "my_binder") /\ "user_id" \notin DOMAIN session[s] )
            => /\ resp[s] = RespPleaseLogin
               /\ DOMAIN resp[s] = {"kind", "to", "flash"}
               /\ sql[s] = << >>
               /\ g[s] = "none" /\ opened[s] = 0

\* An anonymous session has requested my-binder while user_cards has rows.
C15_Witness ==
    \E s \in Sessions :
        /\ Returned(s, "my_binder") /\ Viewer(s) = Null
        /\ user_cards # {}

-----------------------------------------------------------------------------
\* This step changes no table and no session.
StorageAndSessionsUnchanged ==
    /\ users' = users /\ listings' = listings /\ user_cards' = user_cards
    /\ pending' = pending
    /\ session' = session

(* C16: a card_detail, event_detail or user_binder request whose card id,  *)
(* event id or username matches no row executes its lookup and nothing     *)
(* after it, is answered with an error notice and the redirect to the      *)
(* cards, events or binders page, and changes no table and no session.     *)
C16_NotFoundRedirects ==
    [][\A s \in Sessions :
          /\ ( /\ Handles(s, "card_detail")
               /\ \A c \in CardsTable : c.id # req'[s].card_id )
                 => /\ resp'[s] = Redirect("cards", Flash("Card not found", "error"))
                    /\ Len(sql'[s]) = 1
                    /\ StorageAndSessionsUnchanged
          /\ ( /\ Handles(s, "event_detail")
               /\ \A e \in EventsTable : e.id # req'[s].event_id )
                 => /\ resp'[s] = Redirect("events", Flash("Event not found", "error"))
                    /\ Len(sql'[s]) = 1
                    /\ StorageAndSessionsUnchanged
          /\ ( /\ Handles(s, "user_binder")
               /\ NoSuchUsername(req'[s].username) )
                 => /\ resp'[s] = Redirect("binders", Flash("User not found", "error"))
                    /\ Len(sql'[s]) = 1
                    /\ StorageAndSessionsUnchanged]_vars

\* A logged-in session has asked for a card that does not exist.
C16_Witness ==
    \E s \in Sessions :
        /\ Returned(s, "card_detail") /\ req[s].card_id = 9
        /\ Viewer(s) # Null
        /\ resp[s].kind = "redirect"

-----------------------------------------------------------------------------
(* C17: a request opens at most one connection, however many statements it *)
(* executes, and the connections that are open are those of the requests   *)
(* in progress: once a request has ended, by a response or by an           *)
(* exception, its connection is closed and its context holds none.         *)
C17_OneConnectionPerRequest ==
    /\ \A s \in Sessions :
           /\ opened[s] <= 1
           /\ Len(sql[s]) > 0 => opened[s] = 1 /\ g[s] = "open"
           /\ pc[s] = "idle" => g[s] = "none" /\ opened[s] = 0
    /\ nopen = Cardinality({ s \in Sessions : pc[s] # "idle" /\ g[s] = "open" })

\* One request has executed two statements on one connection (register's
\* check and insert) while the request of the other session failed with its
\* connection open.
C17_Witness ==
    \E s, t \in Sessions :
        /\ Returned(s, "register") /\ Len(sql[s]) = 2 /\ opened[s] = 1
        /\ pc[t] = "done" /\ resp[t] = ServerError /\ g[t] = "open"

-----------------------------------------------------------------------------
(* C18: no connection ever holds an uncommitted row, in particular when    *)
(* its request ends; every row execute_db inserted is, from the return of  *)
(* execute_db on, a row of the table every request reads; and the value    *)
(* execute_db returned is the id of that row.                              *)
C18_WritesCommitted ==
    /\ \A s \in Sessions : pending[s] = << >>
    /\ \A r \in registered :
           \E i \in 1..Len(users) :
               users[i].id = r.id /\ users[i].username = r.username
    /\ \A s \in Sessions :
           ( Returned(s, "register") /\ resp[s] = RespRegistered )
               => \E i \in 1..Len(users) :
                      /\ users[i].username = req[s].username
                      /\ check_password_hash(users[i].password_hash, req[s].password)

\* The registering request has not ended yet, and the login of the other
\* session has already found its row.
C18_Witness ==
    \E s, t \in Sessions :
        /\ Returned(s, "register") /\ resp[s] = RespRegistered
        /\ Returned(t, "login") /\ resp[t] = RespLoginOk
        /\ Len(users) = 1

-----------------------------------------------------------------------------
(* C19: the only step that changes a table is the insert of a register     *)
(* POST that passed its check; every other handler (the pages, login,      *)
(* logout, the register form, a rejected register POST) and the end of a   *)
(* request leave users, listings and user_cards as they were.  The other   *)
(* five tables (sets, cards, events, event_attendance, event_cards) are    *)
(* written by no statement of the application.                             *)
C19_OnlyRegisterWrites ==
    [][( users' # users \/ listings' # listings \/ user_cards' # user_cards )
          => \E s \in Sessions :
                 /\ pc[s] = "reg_insert" /\ pc'[s] = "done"
                 /\ resp'[s] = RespRegistered]_vars

\* A register POST has been rejected while a session is logged in.
C19_Witness ==
    \E s, t \in Sessions :
        /\ Returned(s, "register") /\ req[s].method = "POST" /\ resp[s] = RespTaken
        /\ Viewer(t) # Null

-----------------------------------------------------------------------------
\* The text of the statements q, in order.
TextsOf(q) == [i \in 1..Len(q) |-> q[i].text]

(* C20: the text of every statement a request executes is the text the     *)
(* handler produces for any other user-supplied values: for the catalog,   *)
(* for any other search and set filter that are empty or not as the        *)
(* request's are, with the request's values in the bound parameters only;  *)
(* for user_binder, login and register, for any other username or email.   *)
C20_QueryTextFixed ==
    \A s \in Sessions :
        /\ Returned(s, "cards")
              => /\ \A search \in SearchTerms, set_filter \in SetFilters :
                        ( /\ (search = << >>) <=> (req[s].search = << >>)
                          /\ (set_filter = "") <=> (req[s].set = "") )
                            => TextsOf(sql[s]) =
                                   TextsOf(cards_queries(search, set_filter))
                 /\ sql[s][1].params =
                        (IF req[s].search = << >> THEN << >>
                         ELSE << <<"%">> \o req[s].search \o <<"%">> >>)
                        \o (IF req[s].set = "" THEN << >> ELSE << req[s].set >>)
        /\ Returned(s, "user_binder")
              => /\ \A username \in BinderNames :
                        sql[s][1].text = user_binder_queries(username)[1].text
                 /\ sql[s][1].params = << req[s].username >>
        /\ ( Returned(s, "login") /\ req[s].method = "POST" )
              => /\ \A username \in Usernames :
                        TextsOf(sql[s]) = TextsOf(LoginQueries(username))
                 /\ sql[s][1].params = << req[s].username >>
        /\ ( Returned(s, "register") /\ req[s].method = "POST" )
              => /\ \A username \in Usernames, email \in Emails :
                        sql[s][1].text = RegisterCheckQueries(username, email)[1].text
                 /\ sql[s][1].params = << req[s].username, req[s].email >>

\* The catalog has been requested with a search made of LIKE wildcards and
\* a set filter that is no number.
C20_Witness ==
    \E s \in Sessions :
        /\ Returned(s, "cards")
        /\ req[s].search = <<"%", "_">> /\ req[s].set = "x"

-----------------------------------------------------------------------------
(* C21: in the catalog every card that passes the filters is listed, no    *)
(* card is listed twice, and a listed card's have_count and want_count are *)
(* the numbers of user_cards rows of that card with list_type 'have' and   *)
(* 'want', whatever the other joined tables contribute; in the events list *)
(* every event is listed once and its attendee_count and cards_count are   *)
(* the numbers of event_attendance and event_cards rows of that event.     *)
C21_AggregatesExact ==
    \A s \in Sessions :
        /\ Rendered(s, "cards")
              => LET q == resp[s].cards
                 IN  /\ \A i, j \in 1..Len(q) : q[i].id = q[j].id => i = j
                     /\ \A cs \in CardsWithSets :
                            CatalogWhere(req[s].search, req[s].set, cs)
                                => \E i \in 1..Len(q) : q[i].id = cs.card.id
                     /\ \A i \in 1..Len(q) :
                            /\ q[i].have_count =
                                   Cardinality({ uc \in user_cards :
                                       uc.card_id = q[i].id /\ uc.list_type = "have" })
                            /\ q[i].want_count =
                                   Cardinality({ uc \in user_cards :
                                       uc.card_id = q[i].id /\ uc.list_type = "want" })
        /\ Rendered(s, "events")
              => LET q == resp[s].events
                 IN  /\ \A i, j \in 1..Len(q) : q[i].event.id = q[j].event.id => i = j
                     /\ \A e \in EventsTable : \E i \in 1..Len(q) : q[i].event = e
                     /\ \A i \in 1..Len(q) :
                            /\ q[i].attendee_count =
                                   Cardinality({ a \in EventAttendanceTable :
                                       a.event_id = q[i].event.id })
                            /\ q[i].cards_count =
                                   Cardinality({ c \in EventCardsTable :
                                       c.event_id = q[i].event.id })

\* The catalog lists card 1 while it has two have rows, a want row and three
\* active listings: its group has six joined rows.
C21_Witness ==
    \E s \in Sessions :
        /\ Rendered(s, "cards")
        /\ \E i \in 1..Len(resp[s].cards) : resp[s].cards[i].id = 1
        /\ Cardinality({ uc \in user_cards : uc.card_id = 1 /\ uc.list_type = "have" }) = 2
        /\ Cardinality({ uc \in user_cards : uc.card_id = 1 /\ uc.list_type = "want" }) = 1
        /\ Cardinality({ l \in listings : l.card_id = 1 /\ l.status = "active" }) = 3

-----------------------------------------------------------------------------
\* The floor price the card page shows: listings[0].price under
\* {% if listings %}, nothing otherwise.
ShownFloor(page) ==
    IF Len(page.listings) = 0 THEN Null ELSE Some(page.listings[1].listing.price)

\* The floor_price the catalog, without filters, reports for a card.
CatalogFloor(card_id) ==
    (CHOOSE r \in CatalogRows(listings, user_cards, << >>, "") : r.id = card_id).floor_price

(* C22: for every card, the floor price its card page shows (the price of  *)
(* the first of its listings) is the floor_price the catalog reports for   *)
(* the card on the same tables, and the card page shows none exactly when  *)
(* the catalog's floor_price is absent.                                    *)
C22_DetailFloorIsCatalogFloor ==
    \A s \in Sessions :
        /\ Rendered(s, "card_detail")
              => ShownFloor(resp[s]) = CatalogFloor(req[s].card_id)
        /\ Rendered(s, "cards")
              => \A r \in Range(resp[s].cards) :
                     \A page \in card_detail_view(listings, user_cards, r.id) :
                         /\ page.kind = "render"
                         /\ ShownFloor(page) = r.floor_price

\* The page of card 1 has been rendered while it has three active listings
\* and a cheaper sold one.
C22_Witness ==
    \E s \in Sessions :
        /\ Rendered(s, "card_detail") /\ req[s].card_id = 1
        /\ Len(resp[s].listings) = 3
        /\ \E l \in listings : l.status # "active" /\ l.price < resp[s].listings[1].listing.price

-----------------------------------------------------------------------------
\* This step is the insert of a register POST of s that passed its check.
RegisterSucceeds(s) == pc[s] = "reg_insert" /\ pc'[s] = "done"

(* C23: a session dictionary changes only in a successful login of that    *)
(* session, which sets user_id and username, and in a logout of that       *)
(* session, which leaves neither.  A failed login leaves every session as  *)
(* it was, logged in or not; so do a register request, whether it shows    *)
(* the form, is rejected or inserts the account, every page request, a     *)
(* failed statement and the end of a request.                              *)
C23_SessionFrame ==
    [][\A s \in Sessions :
          /\ session'[s] # session[s]
                => \/ LoginSucceeds(s) /\ DOMAIN session'[s] = {"user_id", "username"}
                   \/ Handles(s, "logout") /\ session'[s] = EmptySession
          /\ ( Handles(s, "login") /\ resp'[s] # RespLoginOk ) => session' = session
          /\ ( Handles(s, "register") \/ RegisterSucceeds(s) ) => session' = session
          /\ ( \E route \in {"index", "cards", "card_detail", "listings", "events",
                             "event_detail", "binders", "user_binder", "my_binder"} :
                   Handles(s, route) ) => session' = session]_vars

\* A logged-in session has failed a login and is still logged in, and the
\* other session has registered an account and is still anonymous.
C23_Witness ==
    \E s, t \in Sessions :
        /\ Returned(s, "login") /\ resp[s] = RespInvalid /\ Viewer(s) # Null
        /\ Returned(t, "register") /\ resp[t] = RespRegistered /\ Viewer(t) = Null

-----------------------------------------------------------------------------
(* C24: every session carries either nothing or both user_id and username, *)
(* and then the two are the id and the username of one users row; right    *)
(* after a successful login that row is the one the login's lookup         *)
(* returned for the submitted username.                                    *)
C24_SessionNamesOneRow ==
    \A s \in Sessions :
        /\ \/ session[s] = EmptySession
           \/ /\ DOMAIN session[s] = {"user_id", "username"}
              /\ \E i \in 1..Len(users) :
                     /\ users[i].id = session[s].user_id
                     /\ users[i].username = session[s].username
        /\ ( Returned(s, "login") /\ resp[s] = RespLoginOk )
              => LET user == QueryOne(UsersByUsername(req[s].username))
                 IN  /\ user # Null
                     /\ session[s] = [user_id |-> user[1].id,
                                      username |-> user[1].username]

\* A session has just logged in to the account of the second users row.
C24_Witness ==
    \E s \in Sessions :
        /\ Returned(s, "login") /\ resp[s] = RespLoginOk
        /\ Len(users) = 2 /\ session[s].user_id = 2

-----------------------------------------------------------------------------
\* The session dictionaries a requester may hold: none, or that of a user.
SessionDicts ==
    { EmptySession } \cup
    { [user_id |-> u.id, username |-> u.username] : u \in UserRows }

\* What the handler of `request` may return to a requester whose session
\* dictionary is sess.
ResponsesFor(sess, request) ==
    CASE request.route = "cards" ->
             cards_view(listings, user_cards, request.search, request.set)
      [] request.route = "card_detail" ->
             card_detail_view(listings, user_cards, request.card_id)
      [] request.route = "listings" -> listings_view(listings)
      [] request.route = "events" -> events_view
      [] request.route = "event_detail" -> event_detail_view(request.event_id)
      [] request.route = "binders" -> binders_view(listings, user_cards)
      [] request.route = "user_binder" ->
             user_binder_view(listings, user_cards, request.username)
      [] request.route = "my_binder" -> my_binder_view(user_cards, sess)

(* C25: what user_binder, card_detail, cards, binders, listings, events     *)
(* and event_detail return for a path and its parameters on given tables   *)
(* is what they return to any requester, anonymous, third party or owner;  *)
(* my_binder returns what it returns for the requester's session, and the  *)
(* rows it returns are user_cards rows of the session's user_id.           *)
C25_PublicViewsIgnoreSession ==
    \A s \in Sessions :
        /\ ( /\ pc[s] = "done"
             /\ req[s].route \in {"user_binder", "card_detail", "cards", "binders",
                                  "listings", "events", "event_detail"} )
              => \A sess \in SessionDicts : resp[s] \in ResponsesFor(sess, req[s])
        /\ Returned(s, "my_binder")
              => /\ resp[s] \in ResponsesFor(session[s], req[s])
                 /\ resp[s].kind = "render"
                       => \A r \in Range(resp[s].haves) \cup Range(resp[s].wants) :
                              /\ r.user_card \in user_cards
                              /\ r.user_card.user_id = session[s].user_id

\* ash has requested /binders/ash while holding a private row.
C25_Witness ==
    \E s \in Sessions :
        /\ Rendered(s, "user_binder") /\ req[s].username = "ash"
        /\ Viewer(s) = Some(1)
        /\ \E uc \in user_cards : uc.user_id = 1 /\ uc.is_public = 0

=============================================================================
